---------------------------- MODULE Spec2Model ----------------------------
(***************************************************************************)
(* A model of k8spool (src/k8spool/pool.go): the subscription that keeps   *)
(* a peer list in step with the pods or endpoints of a namespace.          *)
(*                                                                         *)
(* The caller (src/main.go) builds a K8sPool with New, which starts a      *)
(* shared informer and waits for its first synchronisation.  The informer  *)
(* lists and watches the control plane, keeps a Store of the objects it    *)
(* has seen and hands add / update / delete notifications to the three     *)
(* handlers of startGenericWatch.  Each handler rebuilds the whole peer    *)
(* list from the Store and passes it to conf.OnUpdate.  Close cancels the  *)
(* watch context and closes the done channel.                              *)
(***************************************************************************)
EXTENDS Integers, Sequences, FiniteSets, TLC

(***************************************************************************)
(* Bounds of the model.                                                    *)
(***************************************************************************)
MaxContainers == 2      \* container statuses of one pod
MaxSubsets == 2         \* subsets of one Endpoints object
MaxAddresses == 1       \* addresses of one subset
MaxChanges == 1         \* control-plane changes after the subscription starts
MaxRelists == 1         \* re-lists after a lost watch connection

(***************************************************************************)
(* Program constants.                                                      *)
(***************************************************************************)
DefaultPeerPort == 8080
DefaultPeerScheme == "http"
WatchEndpoints == "endpoints"
WatchPods == "pods"

(***************************************************************************)
(* The objects of the control plane.  Names are the object keys            *)
(* (namespace/name), IPs the addresses objects carry.                      *)
(***************************************************************************)
Names == {"a", "b"}
IPs == {"10.0.0.1", "10.0.0.2"}

SeqsUpTo(S, n) == UNION {[1..m -> S] : m \in 0..n}

ContainerStatus == [Ready : BOOLEAN, Running : BOOLEAN]

\* api_v1.Pod, reduced to the fields updatePeersFromPods reads
Pods ==
    [PodIP : IPs, ContainerStatuses : SeqsUpTo(ContainerStatus, MaxContainers)]

\* api_v1.Endpoints, reduced to the fields updatePeersFromEndpoints reads
Endpoints ==
    [Subsets : SeqsUpTo(SeqsUpTo(IPs, MaxAddresses), MaxSubsets)]

\* a plausible slip: the default case of the switch starts the pod watch
UpdateFuncOfDefaultPods(mechanism) ==
    CASE mechanism \in {"", WatchEndpoints} -> "updatePeersFromEndpoints"
      [] OTHER -> "updatePeersFromPods"

\* a plausible slip: the default case falls through to the endpoints watch
UpdateFuncOfNoDefault(mechanism) ==
    IF mechanism = WatchPods THEN "updatePeersFromPods"
    ELSE "updatePeersFromEndpoints"

\* the switch of start: which watch a mechanism selects
UpdateFuncOf(mechanism) ==
    CASE mechanism \in {"", WatchEndpoints} -> "updatePeersFromEndpoints"
      [] mechanism = WatchPods -> "updatePeersFromPods"
      [] OTHER -> "error"

ObjectsOf(fn) ==
    IF fn = "updatePeersFromPods" THEN Pods ELSE Endpoints

\* every content a Store of the given kind can have: a map from the keys
\* present to their objects
StoresOf(fn) == UNION {[S -> ObjectsOf(fn)] : S \in SUBSET Names}

(***************************************************************************)
(* Peer List Builder.                                                      *)
(***************************************************************************)
\* fmt.Sprintf("%s://%s:%d", scheme, ip, port): the three parts, in order
Format(scheme, ip, port) == <<scheme, "://", ip, ":", port>>

\* a plausible slip: only readiness is looked at
RECURSIVE SkipPeerReadyOnly(_)
SkipPeerReadyOnly(statuses) ==
    IF statuses = <<>> THEN FALSE
    ELSE IF ~Head(statuses).Ready THEN TRUE
    ELSE SkipPeerReadyOnly(Tail(statuses))

\* the inner loop of updatePeersFromPods: TRUE when some container status is
\* not ready or not running (continue main)
RECURSIVE SkipPeer(_)
SkipPeer(statuses) ==
    IF statuses = <<>> THEN FALSE
    ELSE IF ~Head(statuses).Ready \/ ~Head(statuses).Running THEN TRUE
    ELSE SkipPeer(Tail(statuses))

\* a plausible slip: break instead of continue on the first pod skipped
RECURSIVE PeersFromPodsBreak(_, _, _)
PeersFromPodsBreak(c, objs, peers) ==
    IF objs = <<>> THEN peers
    ELSE LET pod == Head(objs)
             peer == Format(c.PeerScheme, pod.PodIP, c.PeerPort)
         IN  IF SkipPeer(pod.ContainerStatuses)
             THEN peers
             ELSE PeersFromPodsBreak(c, Tail(objs), Append(peers, peer))

\* the loop of updatePeersFromPods over Store.List()
RECURSIVE PeersFromPods(_, _, _)
PeersFromPods(c, objs, peers) ==
    IF objs = <<>> THEN peers
    ELSE LET pod == Head(objs)
             peer == Format(c.PeerScheme, pod.PodIP, c.PeerPort)
         IN  IF SkipPeer(pod.ContainerStatuses)
             THEN PeersFromPods(c, Tail(objs), peers)
             ELSE PeersFromPods(c, Tail(objs), Append(peers, peer))

\* for _, addr := range s.Addresses
RECURSIVE PeersFromAddresses(_, _, _)
PeersFromAddresses(c, addrs, peers) ==
    IF addrs = <<>> THEN peers
    ELSE PeersFromAddresses(c, Tail(addrs),
             Append(peers, Format(c.PeerScheme, Head(addrs), c.PeerPort)))

\* a plausible slip: only the first subset of an object is read
PeersFromSubsetsFirstOnly(c, subsets, peers) ==
    IF subsets = <<>> THEN peers
    ELSE PeersFromAddresses(c, Head(subsets), peers)

\* for _, s := range endpoint.Subsets
RECURSIVE PeersFromSubsets(_, _, _)
PeersFromSubsets(c, subsets, peers) ==
    IF subsets = <<>> THEN peers
    ELSE PeersFromSubsets(c, Tail(subsets),
             PeersFromAddresses(c, Head(subsets), peers))

\* the loop of updatePeersFromEndpoints over Store.List()
RECURSIVE PeersFromEndpoints(_, _, _)
PeersFromEndpoints(c, objs, peers) ==
    IF objs = <<>> THEN peers
    ELSE PeersFromEndpoints(c, Tail(objs),
             PeersFromSubsets(c, Head(objs).Subsets, peers))

\* Store.List(): the objects of the Store, in the order the Store's map
\* happens to enumerate them (any order of the keys)
Orders(S) == {o \in [1..Cardinality(S) -> S] : \A i, j \in DOMAIN o : i # j => o[i] # o[j]}

(***************************************************************************)
(* State.                                                                  *)
(***************************************************************************)
VARIABLES
    conf,           \* Config: what the caller passed, then K8sPool.conf
    callerPc,       \* where the caller of New / Close is
    watchCancelled, \* watchCtx has been cancelled
    done,           \* the done channel is closed
    updateFunc,     \* the rebuild startGenericWatch was given
    informer,       \* "nil", "running" (go e.informer.Run), "stopped"
    api,            \* the control plane: the objects the selector matches
    changes,        \* control-plane changes made so far
    reflector,      \* "idle", "watching", "disconnected"
    relists,        \* re-lists made so far
    fifoQueue,      \* the informer's delta queue: keys, in arrival order
    fifoItems,      \* ... and the deltas queued for each key
    populated,      \* the first list has been queued
    initialPopulationCount, \* keys of the first list not popped yet
    store,          \* informer.GetStore(): key -> object
    pending,        \* notifications queued for the handlers
    listener,       \* "open", "closed": the handlers' notification channel
    workerPc,       \* the goroutine that runs the handlers
    peers,          \* the peer list of the rebuild in progress
    snapStore,      \* what Store.List() returned to it
    ringPeers,      \* what OnUpdate last set (pool.Set in main.go)
    dirty,          \* the Store was written since a rebuild last read it
    sameStore,      \* the rebuild in progress read the Store as the one
                    \* before it left it
    inFlight,       \* OnUpdate invocations in progress
    nKeyErr,        \* notifications MetaNamespaceKeyFunc failed on
    apiSeq,         \* per key: the number of the control-plane change
                    \* that last touched it (0: none yet)
    lastSeq         \* per key: the change the notification last handed
                    \* to a handler told of

vars == <<conf, callerPc, watchCancelled, done, updateFunc, informer, api,
          changes, reflector, relists, fifoQueue, fifoItems, populated,
          initialPopulationCount, store, pending, listener, workerPc,
          peers, snapStore, ringPeers, dirty, sameStore, inFlight,
          nKeyErr, apiSeq, lastSeq>>

callerVars == <<conf, callerPc, watchCancelled, done, updateFunc>>
planeVars == <<api, changes, apiSeq>>
fifoVars == <<fifoQueue, fifoItems, populated, initialPopulationCount>>
workerVars == <<workerPc, peers, snapStore, ringPeers, sameStore, inFlight,
                nKeyErr, lastSeq>>

\* a plausible slip: the objects are fetched one after the other, and those
\* after the first come from a Store that has moved on to the control plane's
\* next contents
ListOfTorn(st, order) ==
    [i \in DOMAIN order |->
         IF i > 1 /\ order[i] \in DOMAIN api THEN api[order[i]]
         ELSE st[order[i]]]

\* Store.List() on the Store st, enumerated in the given order
ListOf(st, order) == [i \in DOMAIN order |-> st[order[i]]]

EmptyStore == [k \in {} |-> 0]
StorePut(st, k, obj) == [x \in DOMAIN st \cup {k} |-> IF x = k THEN obj ELSE st[x]]
StoreDelete(st, k) == [x \in DOMAIN st \ {k} |-> st[x]]

\* the Config values a caller passes to New
ConfigInputs ==
    {[Mechanism |-> "", PeerScheme |-> "", PeerPort |-> 0],
     [Mechanism |-> WatchPods, PeerScheme |-> "https", PeerPort |-> 9090],
     [Mechanism |-> "nodes", PeerScheme |-> "", PeerPort |-> 0]}

\* the objects the control plane of the model holds and writes
ApiObjects(fn) ==
    IF fn = "updatePeersFromPods"
    THEN {[PodIP |-> "10.0.0.1",
           ContainerStatuses |-> <<[Ready |-> TRUE, Running |-> TRUE]>>],
          [PodIP |-> "10.0.0.2",
           ContainerStatuses |-> <<[Ready |-> FALSE, Running |-> TRUE]>>]}
    ELSE {[Subsets |-> <<<<"10.0.0.1">>>>],
          [Subsets |-> <<<<"10.0.0.2">>>>]}

\* the API server lists objects in key order
NameOrder == <<"a", "b">>

\* a process whose goroutine panicked is gone, with all its goroutines
Alive == callerPc # "panicked" /\ workerPc # "panicked"

(***************************************************************************)
(* The informer's delta queue (client-go DeltaFIFO), as far as the         *)
(* informer built in startGenericWatch uses it.                            *)
(***************************************************************************)
Delta(type, k, obj, tombstone, seq) ==
    [Type |-> type, Key |-> k, Object |-> obj, Tombstone |-> tombstone,
     Seq |-> seq]

\* two deletions in a row are one; the one that still has the object wins
DedupDeltas(ds) ==
    LET n == Len(ds) IN
    IF n >= 2 /\ ds[n].Type = "Deleted" /\ ds[n - 1].Type = "Deleted"
    THEN IF ds[n].Tombstone THEN SubSeq(ds, 1, n - 1)
         ELSE Append(SubSeq(ds, 1, n - 2), ds[n])
    ELSE ds

\* a plausible slip: the new delta is put in front of the key's deltas
QueueActionInFront(fifo, d) ==
    [queue |-> IF fifo.items[d.Key] = <<>> THEN Append(fifo.queue, d.Key)
               ELSE fifo.queue,
     items |-> [fifo.items EXCEPT ![d.Key] = <<d>> \o @]]

\* queueActionLocked: fifo is [queue, items]
QueueAction(fifo, d) ==
    [queue |-> IF fifo.items[d.Key] = <<>> THEN Append(fifo.queue, d.Key)
               ELSE fifo.queue,
     items |-> [fifo.items EXCEPT ![d.Key] = DedupDeltas(Append(@, d))]]

\* Replace, first loop: one Replaced delta for each object of the list
RECURSIVE QueueList(_, _, _)
QueueList(fifo, list, names) ==
    IF names = <<>> THEN fifo
    ELSE LET k == Head(names) IN
         QueueList(IF k \in DOMAIN list
                   THEN QueueAction(fifo, Delta("Replaced", k, list[k], FALSE,
                                                 apiSeq[k]))
                   ELSE fifo,
                   list, Tail(names))

\* the object a key is last known with: the newest queued delta's, else the
\* Store's
LastKnown(fifo, known, k) ==
    IF fifo.items[k] # <<>> THEN fifo.items[k][Len(fifo.items[k])].Object
    ELSE known[k]

\* Replace, second loop: a key that is queued or in the Store and is not in
\* the list was deleted unseen: a Deleted delta that wraps the last known
\* object in a DeletedFinalStateUnknown
RECURSIVE QueueDeletions(_, _, _, _)
QueueDeletions(fifo, list, known, names) ==
    IF names = <<>> THEN fifo
    ELSE LET k == Head(names) IN
         QueueDeletions(IF k \notin DOMAIN list
                           /\ (fifo.items[k] # <<>> \/ k \in DOMAIN known)
                        THEN QueueAction(fifo,
                                 Delta("Deleted", k, LastKnown(fifo, known, k), TRUE,
                                       apiSeq[k]))
                        ELSE fifo,
                        list, known, Tail(names))

Replace(fifo, list, known) ==
    QueueDeletions(QueueList(fifo, list, NameOrder), list, known, NameOrder)

\* keys Replace queues: those listed plus the deletions it detects
ReplaceCount(fifo, list, known) ==
    Cardinality(DOMAIN list)
    + Cardinality({k \in Names \ DOMAIN list :
                       fifo.items[k] # <<>> \/ k \in DOMAIN known})

\* informer.HasSynced: the first list was queued and all of it was popped
HasSynced == populated /\ initialPopulationCount = 0

(***************************************************************************)
(* Initial state: a Config in the caller's hands, a control plane with     *)
(* some objects, nothing constructed yet.                                  *)
(***************************************************************************)
Init ==
    /\ conf \in ConfigInputs
    /\ callerPc = "init"
    /\ watchCancelled = FALSE
    /\ done = FALSE
    /\ updateFunc = "none"
    /\ informer = "nil"
    /\ api \in IF UpdateFuncOf(conf.Mechanism) = "error" THEN {EmptyStore}
               ELSE UNION {[S -> ApiObjects(UpdateFuncOf(conf.Mechanism))] :
                               S \in SUBSET Names}
    /\ changes = 0
    /\ reflector = "idle"
    /\ relists = 0
    /\ fifoQueue = <<>>
    /\ fifoItems = [k \in Names |-> <<>>]
    /\ populated = FALSE
    /\ initialPopulationCount = 0
    /\ store = EmptyStore
    /\ pending = <<>>
    /\ listener = "open"
    /\ workerPc = "none"
    /\ peers = <<>>
    /\ snapStore = EmptyStore
    /\ ringPeers = <<>>
    /\ dirty = TRUE
    /\ sameStore = FALSE
    /\ inFlight = 0
    /\ nKeyErr = 0
    /\ apiSeq = [k \in Names |-> 0]
    /\ lastSeq = [k \in Names |-> 0]

(***************************************************************************)
(* The caller: New, start, startGenericWatch, Close.                       *)
(***************************************************************************)
\* a plausible slip: the defaults are assigned whether or not the caller set
\* the fields
NormaliseAlways(c) ==
    [c EXCEPT !.PeerScheme = DefaultPeerScheme, !.PeerPort = DefaultPeerPort]

\* New's defaults for the fields the caller left unset
Normalise(c) ==
    [c EXCEPT !.PeerScheme = IF @ = "" THEN DefaultPeerScheme ELSE @,
              !.PeerPort = IF @ = 0 THEN DefaultPeerPort ELSE @]

\* a plausible slip: start can be called again on an instance that was closed
NewRestart ==
    /\ callerPc \in {"init", "closed"}
    /\ conf' = Normalise(conf)
    /\ IF UpdateFuncOf(conf.Mechanism) = "error"
       THEN /\ callerPc' = "failed"
            /\ UNCHANGED <<updateFunc, informer, workerPc>>
       ELSE /\ callerPc' = "syncing"
            /\ updateFunc' = UpdateFuncOf(conf.Mechanism)
            /\ informer' = "running"
            /\ workerPc' = "idle"
    /\ UNCHANGED <<watchCancelled, done, planeVars, reflector, relists,
                   fifoVars, store, pending, listener, peers, snapStore,
                   ringPeers, dirty, sameStore, inFlight, nKeyErr,
                   lastSeq>>

\* New up to the point where startGenericWatch waits: the defaults, the
\* switch of start (an unknown mechanism is an error, returned with the
\* pool), the handlers registered and the informer started
New ==
    /\ callerPc = "init"
    /\ conf' = Normalise(conf)
    /\ IF UpdateFuncOf(conf.Mechanism) = "error"
       THEN /\ callerPc' = "failed"
            /\ UNCHANGED <<updateFunc, informer, workerPc>>
       ELSE /\ callerPc' = "syncing"
            /\ updateFunc' = UpdateFuncOf(conf.Mechanism)
            /\ informer' = "running"
            /\ workerPc' = "idle"
    /\ UNCHANGED <<watchCancelled, done, planeVars, reflector, relists,
                   fifoVars, store, pending, listener, peers, snapStore,
                   ringPeers, dirty, sameStore, inFlight, nKeyErr,
                   lastSeq>>

\* a plausible slip: the wait gives up after a while with done still open,
\* startGenericWatch closes done and the error is returned
WaitForCacheSyncTimeout ==
    /\ Alive
    /\ callerPc = "syncing"
    /\ IF HasSynced
       THEN callerPc' = "running" /\ UNCHANGED done
       ELSE callerPc' = "failed" /\ done' = TRUE
    /\ UNCHANGED <<conf, watchCancelled, updateFunc, informer,
                   planeVars, reflector, relists, fifoVars, store,
                   pending, listener, workerVars, dirty>>

\* cache.WaitForCacheSync(e.done, e.informer.HasSynced) returning: true once
\* HasSynced holds, false once done is closed; on false startGenericWatch
\* closes done, which is closed already
WaitForCacheSync ==
    /\ Alive
    /\ callerPc = "syncing"
    /\ HasSynced \/ done
    /\ callerPc' = IF HasSynced THEN "running" ELSE "panicked"
    /\ UNCHANGED <<conf, watchCancelled, done, updateFunc, informer,
                   planeVars, reflector, relists, fifoVars, store,
                   pending, listener, workerVars, dirty>>

\* a plausible slip: Close cancels the context and leaves done open
CloseCancelOnly ==
    /\ callerPc \in {"running", "failed"}
    /\ watchCancelled' = TRUE
    /\ reflector' = IF reflector = "watching" THEN "disconnected" ELSE reflector
    /\ callerPc' = "closed"
    /\ UNCHANGED <<conf, done, updateFunc, informer, planeVars, relists,
                   fifoVars, store, pending, listener, workerVars, dirty>>

\* a plausible slip: a guard turns a Close after the first into a no-op
CloseOnce ==
    /\ callerPc \in {"running", "failed", "closed"}
    /\ watchCancelled' = TRUE
    /\ reflector' = IF reflector = "watching" THEN "disconnected" ELSE reflector
    /\ IF done
       THEN UNCHANGED <<callerPc, done>>
       ELSE callerPc' = "closed" /\ done' = TRUE
    /\ UNCHANGED <<conf, updateFunc, informer, planeVars, relists, fifoVars,
                   store, pending, listener, workerVars, dirty>>

\* Close: e.watchCancel() ends the outstanding watch call, close(e.done)
\* tells the informer to stop; closing a closed channel panics
Close ==
    /\ callerPc \in {"running", "failed", "closed"}
    /\ watchCancelled' = TRUE
    /\ reflector' = IF reflector = "watching" THEN "disconnected" ELSE reflector
    /\ IF done
       THEN callerPc' = "panicked" /\ UNCHANGED done
       ELSE callerPc' = "closed" /\ done' = TRUE
    /\ UNCHANGED <<conf, updateFunc, informer, planeVars, relists, fifoVars,
                   store, pending, listener, workerVars, dirty>>

(***************************************************************************)
(* The control plane and the informer's list and watch (the ListWatch of   *)
(* startPodWatch / startEndpointWatch).                                    *)
(***************************************************************************)
\* the watch call is open and the informer still reads it
Watching == reflector = "watching" /\ ~done

FifoOf == [queue |-> fifoQueue, items |-> fifoItems]

SetFifo(fifo) ==
    /\ fifoQueue' = fifo.queue
    /\ fifoItems' = fifo.items

\* ListFunc answered: the list is queued (Replace) and WatchFunc opens the
\* watch, under watchCtx
ListAndWatch ==
    /\ Alive
    /\ informer = "running"
    /\ ~done
    /\ \/ reflector = "idle" /\ UNCHANGED relists
       \/ reflector = "disconnected" /\ relists < MaxRelists
                                     /\ relists' = relists + 1
    /\ SetFifo(Replace(FifoOf, api, store))
    /\ populated' = TRUE
    /\ initialPopulationCount' =
           IF populated THEN initialPopulationCount
           ELSE ReplaceCount(FifoOf, api, store)
    /\ reflector' = IF watchCancelled THEN "disconnected" ELSE "watching"
    /\ UNCHANGED <<callerVars, informer, planeVars, store, pending,
                   listener, workerVars, dirty>>

\* the watch connection is lost
WatchDrop ==
    /\ Alive
    /\ Watching
    /\ relists < MaxRelists
    /\ reflector' = "disconnected"
    /\ UNCHANGED <<callerVars, informer, planeVars, relists, fifoVars, store, pending, listener, workerVars, dirty>>

\* a change of the control plane; the open watch delivers it as a delta
PlaneChange(k, present, type, obj) ==
    /\ Alive
    /\ informer = "running"
    /\ reflector # "idle"
    /\ ~done
    /\ changes < MaxChanges
    /\ changes' = changes + 1
    /\ api' = IF present THEN StorePut(api, k, obj) ELSE StoreDelete(api, k)
    /\ apiSeq' = [apiSeq EXCEPT ![k] = changes + 1]
    /\ IF Watching
       THEN SetFifo(QueueAction(FifoOf, Delta(type, k, obj, FALSE, changes + 1)))
       ELSE UNCHANGED <<fifoQueue, fifoItems>>
    /\ UNCHANGED <<callerVars, informer, reflector, relists, populated,
                   initialPopulationCount, store, pending, listener,
                   workerVars, dirty>>

ApiAdd ==
    \E k \in Names \ DOMAIN api : \E obj \in ApiObjects(updateFunc) :
        PlaneChange(k, TRUE, "Added", obj)

ApiUpdate ==
    \E k \in DOMAIN api : \E obj \in ApiObjects(updateFunc) \ {api[k]} :
        PlaneChange(k, TRUE, "Updated", obj)

ApiDelete ==
    \E k \in DOMAIN api : PlaneChange(k, FALSE, "Deleted", api[k])

(***************************************************************************)
(* The informer's controller: pop a key, apply its deltas to the Store and *)
(* queue a notification for each.                                          *)
(***************************************************************************)
Notification(type, d) ==
    [Type |-> type, Key |-> d.Key, Tombstone |-> d.Tombstone, Seq |-> d.Seq]

\* a plausible slip: a deletion is applied to the Store and no notification
\* is queued for it
RECURSIVE ProcessDeltasSilentDelete(_, _)
ProcessDeltasSilentDelete(st, deltas) ==
    IF deltas = <<>> THEN st
    ELSE LET d == Head(deltas) IN
         ProcessDeltasSilentDelete(
             IF d.Type = "Deleted"
             THEN [store |-> StoreDelete(st.store, d.Key),
                   pending |-> st.pending]
             ELSE [store |-> StorePut(st.store, d.Key, d.Object),
                   pending |-> Append(st.pending,
                       Notification(IF d.Key \in DOMAIN st.store
                                    THEN "update" ELSE "add", d))],
             Tail(deltas))

\* processDeltas: each delta of the popped key is applied to the Store and
\* a notification is queued for it; st is [store, pending]
RECURSIVE ProcessDeltas(_, _)
ProcessDeltas(st, deltas) ==
    IF deltas = <<>> THEN st
    ELSE LET d == Head(deltas) IN
         ProcessDeltas(
             IF d.Type = "Deleted"
             THEN [store |-> StoreDelete(st.store, d.Key),
                   pending |-> Append(st.pending, Notification("delete", d))]
             ELSE [store |-> StorePut(st.store, d.Key, d.Object),
                   pending |-> Append(st.pending,
                       Notification(IF d.Key \in DOMAIN st.store
                                    THEN "update" ELSE "add", d))],
             Tail(deltas))

\* Pop: the first key of the queue and its deltas, processed under the
\* queue's lock
Pop ==
    /\ Alive
    /\ informer = "running"
    /\ fifoQueue # <<>>
    /\ LET k == Head(fifoQueue)
           st == ProcessDeltas([store |-> store, pending |-> pending], fifoItems[k])
       IN  /\ store' = st.store
           /\ pending' = st.pending
           /\ fifoItems' = [fifoItems EXCEPT ![k] = <<>>]
    /\ fifoQueue' = Tail(fifoQueue)
    /\ initialPopulationCount' =
           IF initialPopulationCount > 0 THEN initialPopulationCount - 1 ELSE 0
    /\ dirty' = TRUE
    /\ UNCHANGED <<callerVars, informer, planeVars, reflector, relists,
                   populated, listener, workerVars>>

\* informer.Run(e.done) ending: once done is closed the queue is closed, the
\* controller drains what is queued and returns, and the handlers'
\* notification channel is closed
InformerStop ==
    /\ Alive
    /\ informer = "running"
    /\ done
    /\ fifoQueue = <<>>
    /\ informer' = "stopped"
    /\ UNCHANGED <<callerVars, planeVars, reflector, relists, fifoVars, store, pending, listener, workerVars, dirty>>

\* the closed channel is noticed: what is still queued for the handlers is
\* dropped
ListenerStop ==
    /\ Alive
    /\ informer = "stopped"
    /\ listener = "open"
    /\ listener' = "closed"
    /\ pending' = <<>>
    /\ UNCHANGED <<callerVars, informer, planeVars, reflector, relists,
                   fifoVars, store, workerVars, dirty>>

WorkerExit ==
    /\ Alive
    /\ listener = "closed"
    /\ workerPc = "idle"
    /\ workerPc' = "exited"
    /\ UNCHANGED <<callerVars, informer, planeVars, reflector, relists,
                   fifoVars, store, pending, listener, peers, snapStore,
                   ringPeers, dirty, sameStore, inFlight, nKeyErr,
                   lastSeq>>

(***************************************************************************)
(* The handlers of startGenericWatch and the two rebuilds.  One goroutine  *)
(* of the informer runs them, one notification at a time.                  *)
(***************************************************************************)
\* a plausible slip: the key function that also handles the wrapper of a
\* deletion (cache.DeletionHandlingMetaNamespaceKeyFunc)
DeletionHandlingMetaNamespaceKeyFunc(n) == [key |-> n.Key, err |-> FALSE]

\* cache.MetaNamespaceKeyFunc(obj): the key of an object that has metadata;
\* a DeletedFinalStateUnknown wrapper has none
MetaNamespaceKeyFunc(n) ==
    IF n.Tombstone THEN [key |-> "", err |-> TRUE]
    ELSE [key |-> n.Key, err |-> FALSE]

\* a plausible slip: the return after the error log is missing
AfterKeyNoReturn(r) == "updateFunc"

\* what a handler does once the key is computed: return on an error, else
\* updateFunc()
AfterKey(r) == IF r.err THEN "return" ELSE "updateFunc"

\* a plausible slip: the handler starts the rebuild on a goroutine of its own
WorkerReadyAsync == workerPc \in {"idle", "callback"}

\* the goroutine takes the next notification when the handler of the last
\* one has returned
WorkerReady == workerPc = "idle"

\* the end of a rebuild: conf.OnUpdate(peers) is called with what the loop
\* built from the list Store.List() returned
CallOnUpdate(list, built) ==
    /\ snapStore' = list
    /\ peers' = built
    /\ workerPc' = "callback"
    /\ inFlight' = inFlight + 1
    /\ sameStore' = ~dirty
    /\ dirty' = FALSE

\* obj.(*api_v1.Pod) and obj.(*api_v1.Endpoints): ok, and a non-nil pointer,
\* exactly for an object of that type
IsPod(obj) == "PodIP" \in DOMAIN obj
IsEndpoints(obj) == "Subsets" \in DOMAIN obj

\* after a failed type assertion the error is logged and the loop goes on
\* with the nil pointer: reading a field through it panics, nothing in the
\* handler recovers, and the rebuild never reaches conf.OnUpdate
NilDereference ==
    /\ workerPc' = "panicked"
    /\ UNCHANGED <<peers, snapStore, sameStore, inFlight, dirty>>

updatePeersFromPods ==
    \E order \in Orders(DOMAIN store) :
        LET list == ListOf(store, order) IN
        IF \A i \in DOMAIN list : IsPod(list[i])
        THEN CallOnUpdate(store, PeersFromPods(conf, list, <<>>))
        ELSE NilDereference

updatePeersFromEndpoints ==
    \E order \in Orders(DOMAIN store) :
        LET list == ListOf(store, order) IN
        IF \A i \in DOMAIN list : IsEndpoints(list[i])
        THEN CallOnUpdate(store, PeersFromEndpoints(conf, list, <<>>))
        ELSE NilDereference

\* AddFunc, UpdateFunc and DeleteFunc have one body: the key of the object,
\* a return when it cannot be computed, else updateFunc()
Handler ==
    /\ Alive
    /\ WorkerReady
    /\ listener = "open"
    /\ pending' = Tail(pending)
    /\ lastSeq' = [lastSeq EXCEPT ![Head(pending).Key] = Head(pending).Seq]
    /\ IF AfterKey(MetaNamespaceKeyFunc(Head(pending))) = "return"
       THEN /\ nKeyErr' = nKeyErr + 1
            /\ UNCHANGED <<workerPc, peers, snapStore, sameStore, inFlight, dirty>>
       ELSE /\ IF updateFunc = "updatePeersFromPods"
               THEN updatePeersFromPods
               ELSE updatePeersFromEndpoints
            /\ UNCHANGED nKeyErr
    /\ UNCHANGED <<callerVars, informer, planeVars, reflector, relists,
                   fifoVars, store, listener, ringPeers>>

AddFunc ==
    /\ pending # <<>>
    /\ Head(pending).Type = "add"
    /\ Handler

UpdateFunc ==
    /\ pending # <<>>
    /\ Head(pending).Type = "update"
    /\ Handler

DeleteFunc ==
    /\ pending # <<>>
    /\ Head(pending).Type = "delete"
    /\ Handler

\* conf.OnUpdate returns (main.go: pool.Set(peers...))
OnUpdate ==
    /\ Alive
    /\ workerPc = "callback"
    /\ ringPeers' = peers
    /\ inFlight' = inFlight - 1
    /\ workerPc' = "idle"
    /\ peers' = <<>>
    /\ snapStore' = EmptyStore
    /\ sameStore' = FALSE
    /\ UNCHANGED <<callerVars, informer, planeVars, reflector, relists,
                   fifoVars, store, pending, listener, dirty, nKeyErr,
                   lastSeq>>

(***************************************************************************)
(* Specifications.                                                         *)
(***************************************************************************)
Worker ==
    \/ AddFunc
    \/ UpdateFunc
    \/ DeleteFunc
    \/ OnUpdate

Next ==
    \/ New
    \/ WaitForCacheSync
    \/ Close
    \/ ListAndWatch
    \/ WatchDrop
    \/ ApiAdd
    \/ ApiUpdate
    \/ ApiDelete
    \/ Pop
    \/ InformerStop
    \/ ListenerStop
    \/ WorkerExit
    \/ Worker

Spec == Init /\ [][Next]_vars

\* the steps the program takes by itself; the control plane's answers and
\* changes, a lost connection and the caller's Close are not among them
LiveSpec ==
    /\ Spec
    /\ WF_vars(WaitForCacheSync)
    /\ WF_vars(Pop)
    /\ WF_vars(InformerStop)
    /\ WF_vars(ListenerStop)
    /\ WF_vars(WorkerExit)
    /\ WF_vars(Worker)

(***************************************************************************)
(* The rebuilds alone: a running subscription whose Store holds any        *)
(* objects of its kind, with one notification waiting for each name (an    *)
(* add for "a" and an update for "b" when the Store holds them, a delete   *)
(* when it does not).                                                      *)
(***************************************************************************)
WaitingFor(st) ==
    <<[Type |-> IF "a" \in DOMAIN st THEN "add" ELSE "delete",
       Key |-> "a", Tombstone |-> FALSE, Seq |-> 0],
      [Type |-> IF "b" \in DOMAIN st THEN "update" ELSE "delete",
       Key |-> "b", Tombstone |-> FALSE, Seq |-> 0]>>

InitBuilder ==
    /\ conf \in {Normalise(c) : c \in {x \in ConfigInputs :
                                          UpdateFuncOf(x.Mechanism) # "error"}}
    /\ callerPc = "running"
    /\ watchCancelled = FALSE
    /\ done = FALSE
    /\ updateFunc = UpdateFuncOf(conf.Mechanism)
    /\ informer = "running"
    /\ store \in StoresOf(updateFunc)
    /\ api = store
    /\ changes = MaxChanges
    /\ reflector = "watching"
    /\ relists = 0
    /\ fifoQueue = <<>>
    /\ fifoItems = [k \in Names |-> <<>>]
    /\ populated = TRUE
    /\ initialPopulationCount = 0
    /\ pending = WaitingFor(store)
    /\ listener = "open"
    /\ workerPc = "idle"
    /\ peers = <<>>
    /\ snapStore = EmptyStore
    /\ ringPeers = <<>>
    /\ dirty = TRUE
    /\ sameStore = FALSE
    /\ inFlight = 0
    /\ nKeyErr = 0
    /\ apiSeq = [k \in Names |-> 0]
    /\ lastSeq = [k \in Names |-> 0]

BuilderSpec == InitBuilder /\ [][Worker]_vars

(***************************************************************************)
(* The rebuilds over everything Store.List() can hand them: its elements   *)
(* are interface{} values, so a Store may hold objects of the other kind.  *)
(***************************************************************************)
AnyStores ==
    UNION {[S -> ApiObjects("updatePeersFromPods")
                   \cup ApiObjects("updatePeersFromEndpoints")] :
               S \in SUBSET Names}

InitAnyStore ==
    /\ conf \in {Normalise(c) : c \in {x \in ConfigInputs :
                                          UpdateFuncOf(x.Mechanism) # "error"}}
    /\ callerPc = "running"
    /\ watchCancelled = FALSE
    /\ done = FALSE
    /\ updateFunc = UpdateFuncOf(conf.Mechanism)
    /\ informer = "running"
    /\ store \in AnyStores
    /\ api = store
    /\ changes = MaxChanges
    /\ reflector = "watching"
    /\ relists = 0
    /\ fifoQueue = <<>>
    /\ fifoItems = [k \in Names |-> <<>>]
    /\ populated = TRUE
    /\ initialPopulationCount = 0
    /\ pending = WaitingFor(store)
    /\ listener = "open"
    /\ workerPc = "idle"
    /\ peers = <<>>
    /\ snapStore = EmptyStore
    /\ ringPeers = <<>>
    /\ dirty = TRUE
    /\ sameStore = FALSE
    /\ inFlight = 0
    /\ nKeyErr = 0
    /\ apiSeq = [k \in Names |-> 0]
    /\ lastSeq = [k \in Names |-> 0]

AnyStoreSpec == InitAnyStore /\ [][Worker]_vars

(***************************************************************************)
(* The whole program over every combination of a mechanism, a scheme and a *)
(* port, set or unset, with one object in the control plane.               *)
(***************************************************************************)
ConfigSpace ==
    [Mechanism : {"", WatchEndpoints, WatchPods, "nodes"},
     PeerScheme : {"", "http", "https"},
     PeerPort : {0, 8080, 9090}]

InitConfig ==
    /\ conf \in ConfigSpace
    /\ callerPc = "init"
    /\ watchCancelled = FALSE
    /\ done = FALSE
    /\ updateFunc = "none"
    /\ informer = "nil"
    /\ api \in IF UpdateFuncOf(conf.Mechanism) = "error" THEN {EmptyStore}
               ELSE [{"a"} -> ApiObjects(UpdateFuncOf(conf.Mechanism))]
    /\ changes = 0
    /\ reflector = "idle"
    /\ relists = 0
    /\ fifoQueue = <<>>
    /\ fifoItems = [k \in Names |-> <<>>]
    /\ populated = FALSE
    /\ initialPopulationCount = 0
    /\ store = EmptyStore
    /\ pending = <<>>
    /\ listener = "open"
    /\ workerPc = "none"
    /\ peers = <<>>
    /\ snapStore = EmptyStore
    /\ ringPeers = <<>>
    /\ dirty = TRUE
    /\ sameStore = FALSE
    /\ inFlight = 0
    /\ nKeyErr = 0
    /\ apiSeq = [k \in Names |-> 0]
    /\ lastSeq = [k \in Names |-> 0]

ConfigSpec == InitConfig /\ [][Next]_vars

(***************************************************************************)
(* What the claims speak of.                                               *)
(***************************************************************************)
Occurrences(seq, x) == Cardinality({i \in DOMAIN seq : seq[i] = x})

\* the (endpoint set, subset, address) triples of a Store of Endpoints
Triples(st) ==
    UNION {UNION {{<<k, i, j>> : j \in DOMAIN st[k].Subsets[i]} :
                     i \in DOMAIN st[k].Subsets} : k \in DOMAIN st}

\* every declared container status is ready and running
Qualifies(pod) ==
    \A i \in DOMAIN pod.ContainerStatuses :
        pod.ContainerStatuses[i].Ready /\ pod.ContainerStatuses[i].Running

PeerOf(ip) == Format(conf.PeerScheme, ip, conf.PeerPort)

\* a handler takes the notification at the head of the queue
Taken == pending # <<>> /\ pending' = Tail(pending) /\ listener' = "open"

Invoking == workerPc = "callback"

\* the subscription's lifecycle state, from where its caller is
Lifecycle ==
    CASE callerPc = "init" -> "Uninitialized"
      [] callerPc = "syncing" -> "Syncing"
      [] callerPc = "running" -> "Running"
      [] OTHER -> "Closed"

\* the list a rebuild of the Store st must hand over, up to order: one entry
\* for each triple (endpoints) or for each qualifying pod (pods), and no
\* other entry
ExpectedCount(st, ip) ==
    IF updateFunc = "updatePeersFromPods"
    THEN Cardinality({k \in DOMAIN st : st[k].PodIP = ip /\ Qualifies(st[k])})
    ELSE Cardinality({t \in Triples(st) : st[t[1]].Subsets[t[2]][t[3]] = ip})

IsBuildOf(ps, st) ==
    /\ \A ip \in IPs : Occurrences(ps, PeerOf(ip)) = ExpectedCount(st, ip)
    /\ \A i \in DOMAIN ps : \E ip \in IPs : ps[i] = PeerOf(ip)

(***************************************************************************)
(* C1.  With the endpoints mechanism the peer list handed to OnUpdate has  *)
(* exactly one entry scheme://address:port for each (endpoint set, subset, *)
(* address) triple of the Store and no other entry: nothing is filtered,   *)
(* and an empty Store gives an empty list.                                 *)
(***************************************************************************)
C1_EndpointsPeers ==
    (Invoking /\ updateFunc = "updatePeersFromEndpoints") =>
        /\ IsBuildOf(peers, snapStore)
        /\ Len(peers) = Cardinality(Triples(snapStore))
        /\ (snapStore = EmptyStore => peers = <<>>)

\* two objects, three triples, one address listed twice
C1_Witness ==
    /\ Invoking
    /\ updateFunc = "updatePeersFromEndpoints"
    /\ Cardinality(DOMAIN snapStore) = 2
    /\ Len(peers) = 3
    /\ \E i, j \in DOMAIN peers : i # j /\ peers[i] = peers[j]

(***************************************************************************)
(* C2.  With the pods mechanism a stored pod has its entry                 *)
(* scheme://podIP:port in the peer list handed to OnUpdate if and only if  *)
(* every one of its container statuses is ready and running: one failing   *)
(* container excludes the pod, a pod with no container status is included. *)
(***************************************************************************)
C2_PodsPeers ==
    (Invoking /\ updateFunc = "updatePeersFromPods") =>
        /\ IsBuildOf(peers, snapStore)
        /\ Len(peers) = Cardinality({k \in DOMAIN snapStore : Qualifies(snapStore[k])})

\* a pod excluded for its second container only, beside a pod with no
\* container status, which is the one entry of the list
C2_Witness ==
    /\ Invoking
    /\ updateFunc = "updatePeersFromPods"
    /\ \E k, l \in DOMAIN snapStore :
           /\ Len(snapStore[k].ContainerStatuses) = 2
           /\ snapStore[k].ContainerStatuses[1] = [Ready |-> TRUE, Running |-> TRUE]
           /\ snapStore[k].ContainerStatuses[2] = [Ready |-> TRUE, Running |-> FALSE]
           /\ snapStore[l].ContainerStatuses = <<>>
           /\ peers = <<PeerOf(snapStore[l].PodIP)>>

(***************************************************************************)
(* C4, as claimed.  Two consecutive rebuilds against a Store that was not  *)
(* written in between hand OnUpdate the same list, entries and order.      *)
(***************************************************************************)
C4_SameList == (Invoking /\ sameStore) => peers = ringPeers

(***************************************************************************)
(* C4, amended.  Two consecutive rebuilds against a Store that was not     *)
(* written in between hand OnUpdate the same entries, each as many times;  *)
(* their order follows the Store's enumeration and may differ.             *)
(***************************************************************************)
C4_SameEntries ==
    (Invoking /\ sameStore) =>
        /\ Len(peers) = Len(ringPeers)
        /\ \A ip \in IPs :
               Occurrences(peers, PeerOf(ip)) = Occurrences(ringPeers, PeerOf(ip))

\* a second rebuild of an unwritten Store that lists two peers the other
\* way round
C4_Witness ==
    /\ Invoking
    /\ sameStore
    /\ Len(peers) = 2
    /\ peers # ringPeers

(***************************************************************************)
(* C3, as claimed.  While the subscription is Running, every notification  *)
(* a handler takes starts exactly one OnUpdate invocation.                 *)
(***************************************************************************)
C3_EveryNotification ==
    [][(Lifecycle = "Running" /\ Taken) => inFlight' = inFlight + 1]_vars

(***************************************************************************)
(* C3, amended.  Every notification a handler takes whose object has a     *)
(* key starts exactly one OnUpdate invocation, whether or not the peer     *)
(* list changes, and its argument is the Builder's result on the Store as  *)
(* it is when the handler runs; a notification whose key cannot be         *)
(* computed starts none; and no invocation starts in any other way.        *)
(***************************************************************************)
C3_KeyedNotification ==
    [][/\ (Taken /\ ~Head(pending).Tombstone) =>
              /\ inFlight' = inFlight + 1
              /\ Invoking'
              /\ snapStore' = store
              /\ IsBuildOf(peers', store)
       /\ (Taken /\ Head(pending).Tombstone) =>
              /\ inFlight' = inFlight
              /\ nKeyErr' = nKeyErr + 1
       /\ inFlight' > inFlight => Taken]_vars

\* Running: a deletion found by a re-list was dropped, and the notification
\* after it is being answered with a list equal to the one before
C3_Witness ==
    /\ Lifecycle = "Running"
    /\ nKeyErr > 0
    /\ Invoking
    /\ peers = ringPeers

(***************************************************************************)
(* C5.  When the first synchronisation never completes, start still        *)
(* returns to its caller.                                                  *)
(***************************************************************************)
C5_StartReturns == (Lifecycle = "Syncing") ~> (Lifecycle # "Syncing")

C7_CloseStopsWorker ==
    /\ [](callerPc = "closed" => watchCancelled /\ done)
    /\ (callerPc = "closed" /\ informer # "nil")
           ~> (workerPc = "exited" \/ callerPc = "panicked")

\* closed and exited with nothing ever listed, changed or notified
C7_Witness ==
    /\ callerPc = "closed"
    /\ workerPc = "exited"
    /\ api = EmptyStore
    /\ store = EmptyStore
    /\ changes = 0
    /\ ringPeers = <<>>
    /\ nKeyErr = 0

(***************************************************************************)
(* C8.  After Close has returned no new OnUpdate invocation is started.    *)
(***************************************************************************)
C8_NoInvocationAfterClose ==
    [][callerPc = "closed" => inFlight' <= inFlight]_vars

(***************************************************************************)
(* C9.  OnUpdate is never invoked concurrently with itself: at most one    *)
(* invocation is in progress in every reachable state.                     *)
(***************************************************************************)
C9_OneAtATime == inFlight <= 1

\* an invocation in progress while the next notification waits
C9_Witness == inFlight = 1 /\ pending # <<>>

(***************************************************************************)
(* C10, as claimed.  OnUpdate is invoked only once the subscription is     *)
(* Running, never in Uninitialized or Syncing.                             *)
(***************************************************************************)
C10_OnlyWhenRunning ==
    Invoking => Lifecycle \notin {"Uninitialized", "Syncing"}

(***************************************************************************)
(* C10, amended.  OnUpdate is never invoked in Uninitialized, nor for an   *)
(* instance whose mechanism start rejects; it is invoked in Syncing, where *)
(* the add notifications of the first listing reach AddFunc while start    *)
(* still waits for the synchronisation.                                    *)
(***************************************************************************)
C10_NotBeforeStart ==
    Invoking =>
        /\ Lifecycle # "Uninitialized"
        /\ conf.Mechanism \in {"", WatchEndpoints, WatchPods}
        /\ populated

\* an invocation while start waits and the first list is not all popped
C10_Witness ==
    /\ Invoking
    /\ Lifecycle = "Syncing"
    /\ ~HasSynced

(***************************************************************************)
(* C11.  Eventual consistency.  In every execution in which the            *)
(* subscription stays Running with its watch open, no notification's key   *)
(* fails to compute and the control plane stops changing (it makes at most *)
(* MaxChanges changes), from some point on the Store equals the control    *)
(* plane's objects and the list OnUpdate was last called with is the       *)
(* rebuild of that Store.                                                  *)
(***************************************************************************)
C11_EventuallyConsistent ==
    <>[](Lifecycle = "Running" /\ reflector = "watching" /\ nKeyErr = 0)
        => <>[](/\ store = api
                /\ ~Invoking
                /\ IsBuildOf(ringPeers, store))

\* consistent and quiet after every change and a re-list, with peers set
C11_Witness ==
    /\ Lifecycle = "Running"
    /\ reflector = "watching"
    /\ nKeyErr = 0
    /\ changes = MaxChanges
    /\ relists > 0
    /\ fifoQueue = <<>>
    /\ pending = <<>>
    /\ ~Invoking
    /\ store = api
    /\ ringPeers # <<>>
    /\ IsBuildOf(ringPeers, store)

(***************************************************************************)
(* C12.  A second Close on the same subscription closes the done channel   *)
(* that is closed already and panics: wherever a Close has returned,       *)
(* another Close can be called, and every such call ends in the panic,     *)
(* none in a no-op; and a panic only happens with done closed.             *)
(***************************************************************************)
C12_SecondClosePanics ==
    /\ callerPc = "closed" =>
            /\ done
            /\ ENABLED (Close /\ callerPc' = "panicked")
            /\ ~ENABLED (Close /\ callerPc' # "panicked")
    /\ callerPc = "panicked" => done /\ watchCancelled

\* the panic of a second Close, on a subscription that had been Running
C12_Witness ==
    /\ callerPc = "panicked"
    /\ done
    /\ informer # "nil"

(***************************************************************************)
(* C13.  The lifecycle only moves forward: every step that changes it goes *)
(* from Uninitialized to Syncing, from Syncing to Running, or into Closed  *)
(* (by Close, or by a start that fails); no step of New, Close, the        *)
(* informer or the handlers leaves Closed, and Running is entered from     *)
(* Syncing only.                                                           *)
(***************************************************************************)
C13_ForwardOnly ==
    [][Lifecycle' # Lifecycle =>
           <<Lifecycle, Lifecycle'>> \in
               {<<"Uninitialized", "Syncing">>, <<"Syncing", "Running">>,
                <<"Running", "Closed">>, <<"Syncing", "Closed">>,
                <<"Uninitialized", "Closed">>}]_vars

\* Closed after Running, with the handlers still at work on a notification
C13_Witness ==
    /\ callerPc = "closed"
    /\ informer # "nil"
    /\ Invoking
    /\ pending # <<>>

(***************************************************************************)
(* C14.  A notification whose key cannot be computed is dropped: its       *)
(* handler starts no OnUpdate invocation, leaves the peers last set as     *)
(* they are and leaves the goroutine ready for the next notification; the  *)
(* change it told of is in the Store already (or a later notification      *)
(* about the same key is queued); and after such a drop every notification *)
(* whose key computes is answered with the rebuild of the whole Store as   *)
(* it then is.                                                             *)
(***************************************************************************)
C14_DropIsTransient ==
    [][Taken =>
           IF Head(pending).Tombstone
           THEN /\ nKeyErr' = nKeyErr + 1
                /\ inFlight' = inFlight
                /\ ringPeers' = ringPeers
                /\ workerPc' = "idle"
                /\ \/ Head(pending).Key \notin DOMAIN store
                   \/ \E i \in DOMAIN Tail(pending) :
                          Tail(pending)[i].Key = Head(pending).Key
           ELSE nKeyErr > 0 =>
                    /\ workerPc' = "callback"
                    /\ inFlight' = inFlight + 1
                    /\ snapStore' = store
                    /\ IsBuildOf(peers', store)]_vars

\* after a drop, an invocation replaces the peers last set with the rebuild
\* of the Store
C14_Witness ==
    /\ nKeyErr > 0
    /\ Invoking
    /\ IsBuildOf(peers, store)
    /\ ~IsBuildOf(ringPeers, store)

C16_OneSnapshot ==
    /\ [](Invoking => IsBuildOf(peers, snapStore))
    /\ [][inFlight' = inFlight + 1 => snapStore' = store]_vars

\* an invocation in progress whose Store was written after the rebuild read
\* it: the list is the rebuild of what was read, not of the Store as it is
C16_Witness ==
    /\ Invoking
    /\ snapStore # store
    /\ DOMAIN snapStore = Names
    /\ peers # <<>>
    /\ IsBuildOf(peers, snapStore)
    /\ ~IsBuildOf(peers, store)

(***************************************************************************)
(* C17.  The notifications about one key reach the handlers in the order   *)
(* in which the control plane made the changes they tell of: a handler is  *)
(* never handed a notification about a key that tells of an earlier change *)
(* than the one last handed over for that key.  (No order is claimed, or   *)
(* checked, between different keys.)                                       *)
(***************************************************************************)
C17_PerKeyOrder ==
    [][Taken => Head(pending).Seq >= lastSeq[Head(pending).Key]]_vars

\* a key's change has been handed over, and the next notification about
\* that key is at the head of the queue
C17_Witness ==
    /\ pending # <<>>
    /\ lastSeq[Head(pending).Key] > 0
    /\ WorkerReady
    /\ listener = "open"

(***************************************************************************)
(* C18.  Configuration normalisation.  The step that constructs the        *)
(* subscription leaves a scheme or port the caller set as it is, makes an  *)
(* unset scheme "http" and an unset (zero) port 8080, leaves the mechanism *)
(* as passed, selects the Endpoints rebuild for an unset or "endpoints"    *)
(* mechanism and the pod rebuild for "pods"; and no later step changes the *)
(* configuration or the selection.                                         *)
(***************************************************************************)
C18_Normalisation ==
    [][IF callerPc = "init" /\ callerPc' # "init"
       THEN /\ conf'.PeerScheme =
                   IF conf.PeerScheme = "" THEN "http" ELSE conf.PeerScheme
            /\ conf'.PeerPort =
                   IF conf.PeerPort = 0 THEN 8080 ELSE conf.PeerPort
            /\ conf'.Mechanism = conf.Mechanism
            /\ conf.Mechanism \in {"", "endpoints"} =>
                   updateFunc' = "updatePeersFromEndpoints"
            /\ conf.Mechanism = "pods" =>
                   updateFunc' = "updatePeersFromPods"
       ELSE conf' = conf /\ updateFunc' = updateFunc]_vars

\* a callback of a subscription whose scheme was set and whose mechanism
\* and port were not: the peers carry the caller's scheme and the default
\* port
C18_Witness ==
    /\ Lifecycle = "Running"
    /\ conf = [Mechanism |-> "", PeerScheme |-> "https", PeerPort |-> 8080]
    /\ updateFunc = "updatePeersFromEndpoints"
    /\ Invoking
    /\ peers # <<>>
    /\ \A i \in DOMAIN peers : peers[i][1] = "https" /\ peers[i][5] = 8080

(***************************************************************************)
(* C19.  For a mechanism that is neither empty, "endpoints" nor "pods",    *)
(* construction ends with the error returned and nothing started: the      *)
(* instance is never Syncing or Running, no informer and no handler        *)
(* goroutine exists, nothing is listed or queued, and OnUpdate is never    *)
(* invoked, whatever the caller does with the instance afterwards.         *)
(***************************************************************************)
C19_UnknownMechanism ==
    /\ [](conf.Mechanism \notin {"", "endpoints", "pods"} =>
              /\ Lifecycle \notin {"Syncing", "Running"}
              /\ updateFunc = "none"
              /\ informer = "nil"
              /\ reflector = "idle"
              /\ workerPc = "none"
              /\ ~populated
              /\ pending = <<>>
              /\ inFlight = 0
              /\ ringPeers = <<>>)
    /\ [][(conf.Mechanism \notin {"", "endpoints", "pods"}
               /\ callerPc = "init" /\ callerPc' # "init")
              => callerPc' = "failed"]_vars

\* the error returned for "nodes", and the instance closed by its caller
C19_Witness ==
    /\ conf.Mechanism = "nodes"
    /\ callerPc = "closed"
    /\ done
    /\ informer = "nil"

(***************************************************************************)
(* C20.  With one construction and at most one Close the done channel is   *)
(* closed at most once: the panic of closing it a second time happens only *)
(* in a Close that is called after a Close has returned, never in start    *)
(* and never in the first Close; and done is closed wherever a Close has   *)
(* returned.                                                               *)
(***************************************************************************)
C20_DoneClosedOnce ==
    /\ [][(callerPc' = "panicked" /\ callerPc # "panicked")
              => callerPc = "closed" /\ done]_vars
    /\ [](callerPc = "closed" => done)

\* one construction and one Close, all wound down: done was closed once and
\* nothing panicked
C20_Witness ==
    /\ callerPc = "closed"
    /\ done
    /\ informer = "stopped"
    /\ workerPc = "exited"
=============================================================================
